---- MODULE Spec2Model ----
(***************************************************************************)
(* LikeSQLite: the promise-returning CRUD adapter of src/index.js over the *)
(* synchronous embedded engine (better-sqlite3), together with the host    *)
(* event loop its waitForTick shim defers to.                              *)
(*                                                                         *)
(* One table is modelled.  Its rows carry a rowid, a username and a        *)
(* password, as the tables of the adapter tests do; the table may declare  *)
(* UNIQUE (username) and may declare its rowid explicitly as               *)
(* id INTEGER PRIMARY KEY AUTOINCREMENT NOT NULL.                          *)
(***************************************************************************)
EXTENDS Integers, Sequences, FiniteSets, TLC

\* ------------------------------------------------------------- bounds
MaxRows == 2        \* rows the table may hold at once
MaxId == 2          \* largest rowid handed out or supplied
MaxCalls == 2       \* calls a client may have in flight without awaiting
MaxIssued == 3      \* calls a client that never awaits makes in all
MaxTimers == 1      \* other callbacks (timers, I/O) that may be pending

\* ------------------------------------------------------- value domains
Usernames == {"joe", "bob"}
Passwords == {"123"}
\* WHERE username = ? is tried with stored names and with a name never stored.
FindValues == {"", "joe", "random-username"}
NoWhere == ""
\* The databases a client may ask to create or drop.
DatabaseNames == {"main", "other"}

\* ---------------------------------------------------- JavaScript values
Undefined == [t |-> "undefined"]
Null == [t |-> "null"]
Num(n) == [t |-> "number", v |-> n]
Bool(b) == [t |-> "boolean", v |-> b]
Arr(s) == [t |-> "array", items |-> s]
Obj(p) == [t |-> "object", props |-> p]
Prop(n, v) == [name |-> n, value |-> v]
Info(c, l) == [t |-> "info", changes |-> c, lastInsertRowid |-> l]

\* An error object: its class, its code (none for plain Errors) and message.
Err(n, c, m) == [t |-> "error", name |-> n, code |-> c, message |-> m]
NoCode == "undefined"

\* ------------------------------------------------------------ helpers
Max(a, b) == IF a >= b THEN a ELSE b
Min(a, b) == IF a <= b THEN a ELSE b

Take(s, n) == SubSeq(s, 1, Min(n, Len(s)))

\* --------------------------------------------------------- statements
\* A prepared statement with its bound values, as the query builder hands it
\* to the adapter.  id = 0: the INSERT leaves the rowid to the engine.
\* limit = 0: no LIMIT.  order: ORDER BY username ASC.
BaseStmt ==
    [kind |-> "NONE", unique |-> FALSE, idcol |-> FALSE, id |-> 0,
     username |-> "", password |-> "", cols |-> <<>>, where |-> NoWhere,
     order |-> FALSE, limit |-> 0]

CreateTable(u, k) == [BaseStmt EXCEPT !.kind = "CREATE", !.unique = u, !.idcol = k]
DropTable == [BaseStmt EXCEPT !.kind = "DROP"]
InsertInto(i, u, p) ==
    [BaseStmt EXCEPT !.kind = "INSERT", !.id = i, !.username = u, !.password = p]
SelectFrom(c, w, o, l) ==
    [BaseStmt EXCEPT !.kind = "SELECT", !.cols = c, !.where = w, !.order = o, !.limit = l]
SelectExists(w) == [BaseStmt EXCEPT !.kind = "EXISTS", !.where = w, !.limit = 1]
SelectCount(w) == [BaseStmt EXCEPT !.kind = "COUNT", !.where = w]
UpdateSet(u, w) == [BaseStmt EXCEPT !.kind = "UPDATE", !.username = u, !.where = w]
DeleteFrom(w) == [BaseStmt EXCEPT !.kind = "DELETE", !.where = w]

\* ------------------------------------------------------------- engine
\* The database behind the connection: whether the connection is open, the
\* table's schema, its rows in the order they were inserted, the
\* AUTOINCREMENT high-water mark and the connection's last insert rowid.
EmptyDb ==
    [open |-> TRUE, exists |-> FALSE, unique |-> FALSE, idcol |-> FALSE,
     rows |-> <<>>, seq |-> 0, last |-> 0]

NoErr == [t |-> "none", name |-> "", code |-> "", message |-> ""]
NotOpen == Err("TypeError", NoCode, "The database connection is not open")
NoSuchTable == Err("SqliteError", "SQLITE_ERROR", "no such table")
TableExists == Err("SqliteError", "SQLITE_ERROR", "table already exists")
UniqueFailed == Err("SqliteError", "SQLITE_CONSTRAINT_UNIQUE", "UNIQUE constraint failed: username")
PrimaryKeyFailed == Err("SqliteError", "SQLITE_CONSTRAINT_PRIMARYKEY", "UNIQUE constraint failed: id")
RowidFailed == Err("SqliteError", "SQLITE_CONSTRAINT_ROWID", "UNIQUE constraint failed: rowid")

Matches(row, w) == w = NoWhere \/ row.username = w

Matching(rs, w) ==
    LET Hit(r) == Matches(r, w) IN SelectSeq(rs, Hit)

NotMatching(rs, w) ==
    LET Miss(r) == ~Matches(r, w) IN SelectSeq(rs, Miss)

MaxRowid(rs) ==
    IF rs = <<>> THEN 0 ELSE CHOOSE m \in {rs[i].rowid : i \in DOMAIN rs} :
        \A i \in DOMAIN rs : rs[i].rowid <= m

\* The rowid the engine picks: one past the largest in the table, and with
\* AUTOINCREMENT never one that was used before.
NextRowid(db) ==
    IF db.idcol THEN Max(db.seq, MaxRowid(db.rows)) + 1 ELSE MaxRowid(db.rows) + 1

RECURSIVE ByRowid(_)
\* A table scan walks the rowid b-tree: rows in ascending rowid.
ByRowid(rs) ==
    IF rs = <<>> THEN <<>>
    ELSE LET r == rs[Len(rs)]
             rest == ByRowid(SubSeq(rs, 1, Len(rs) - 1))
             Lower(x) == x.rowid < r.rowid
             Higher(x) == x.rowid > r.rowid
         IN SelectSeq(rest, Lower) \o <<r>> \o SelectSeq(rest, Higher)

NameRank(u) == IF u = "bob" THEN 1 ELSE IF u = "joe" THEN 2 ELSE 3

RECURSIVE ByUsername(_)
\* ORDER BY username ASC over the scanned rows; ties keep the scan order.
ByUsername(rs) ==
    IF rs = <<>> THEN <<>>
    ELSE LET r == rs[Len(rs)]
             rest == ByUsername(SubSeq(rs, 1, Len(rs) - 1))
             Lower(x) == NameRank(x.username) <= NameRank(r.username)
             Higher(x) == NameRank(x.username) > NameRank(r.username)
         IN SelectSeq(rest, Lower) \o <<r>> \o SelectSeq(rest, Higher)

\* The columns SELECT * expands to.
TableCols(db) ==
    IF db.idcol THEN <<"id", "username", "password">> ELSE <<"username", "password">>

ResultCols(db, stmt) ==
    CASE stmt.kind = "EXISTS" -> <<"EXISTS(SELECT 1 LIMIT 1)">>
      [] stmt.kind = "COUNT" -> <<"COUNT(1)">>
      [] OTHER -> IF stmt.cols = <<"*">> THEN TableCols(db) ELSE stmt.cols

Cell(row, c) ==
    CASE c \in {"rowid", "id"} -> row.rowid
      [] c = "username" -> row.username
      [] OTHER -> row.password

\* One result row: a plain object whose keys are the result columns, in order.
RowObject(row, cols) == Obj([i \in DOMAIN cols |-> Prop(cols[i], Cell(row, cols[i]))])

\* After the statement, would two rows share a username?
Duplicates(rs) ==
    \E i, j \in DOMAIN rs : i # j /\ rs[i].username = rs[j].username

\* db.prepare(sql): fails on a closed connection or a missing table.
Prepare(db, stmt) ==
    IF ~db.open THEN NotOpen
    ELSE IF ~db.exists /\ stmt.kind \notin {"CREATE", "DROP"} THEN NoSuchTable
    ELSE NoErr

RunResult(e, c, d) == [err |-> e, info |-> Info(c, d.last), db |-> d]

\* stmt.run(): the statement's effect on the database, the run info
\* {changes, lastInsertRowid}, or the error the engine throws.
Run(db, stmt) ==
    LET fail(e) == RunResult(e, 0, db) IN
    IF Prepare(db, stmt) # NoErr THEN fail(Prepare(db, stmt))
    ELSE CASE stmt.kind = "CREATE" ->
                IF db.exists THEN fail(TableExists)
                ELSE RunResult(NoErr, 0,
                       [db EXCEPT !.exists = TRUE, !.unique = stmt.unique,
                                  !.idcol = stmt.idcol, !.rows = <<>>, !.seq = 0])
           [] stmt.kind = "DROP" ->
                RunResult(NoErr, 0,
                    [db EXCEPT !.exists = FALSE, !.unique = FALSE, !.idcol = FALSE,
                               !.rows = <<>>, !.seq = 0])
           [] stmt.kind = "INSERT" ->
                LET rowid == IF stmt.id # 0 THEN stmt.id ELSE NextRowid(db)
                    row == [rowid |-> rowid, username |-> stmt.username,
                            password |-> stmt.password]
                IN IF \E i \in DOMAIN db.rows : db.rows[i].rowid = rowid
                   THEN fail(IF db.idcol THEN PrimaryKeyFailed ELSE RowidFailed)
                   ELSE IF db.unique /\ Duplicates(Append(db.rows, row))
                   THEN fail(UniqueFailed)
                   ELSE RunResult(NoErr, 1,
                          [db EXCEPT !.rows = Append(db.rows, row),
                                     !.seq = IF db.idcol THEN Max(db.seq, rowid) ELSE 0,
                                     !.last = rowid])
           [] stmt.kind = "UPDATE" ->
                LET after == [i \in DOMAIN db.rows |->
                                IF Matches(db.rows[i], stmt.where)
                                THEN [db.rows[i] EXCEPT !.username = stmt.username]
                                ELSE db.rows[i]]
                IN IF db.unique /\ Duplicates(after) THEN fail(UniqueFailed)
                   ELSE RunResult(NoErr, Len(Matching(db.rows, stmt.where)),
                          [db EXCEPT !.rows = after])
           [] stmt.kind = "DELETE" ->
                RunResult(NoErr, Len(Matching(db.rows, stmt.where)),
                    [db EXCEPT !.rows = NotMatching(db.rows, stmt.where)])
           [] OTHER -> RunResult(NoErr, 0, db)

\* stmt.all(): the result rows of a SELECT, as plain objects.
All(db, stmt) ==
    LET hits == Matching(ByRowid(db.rows), stmt.where)
        sorted == IF stmt.order THEN ByUsername(hits) ELSE hits
        cut == IF stmt.limit # 0 THEN Take(sorted, stmt.limit) ELSE sorted
        cols == ResultCols(db, stmt)
    IN CASE stmt.kind = "EXISTS" ->
              <<Obj(<<Prop(cols[1], IF hits # <<>> THEN 1 ELSE 0)>>)>>
         [] stmt.kind = "COUNT" -> <<Obj(<<Prop(cols[1], Len(hits))>>)>>
         [] OTHER -> [i \in DOMAIN cut |-> RowObject(cut[i], cols)]

\* stmt.columns(): one descriptor per result column, in column order.
Columns(db, stmt) ==
    LET cols == ResultCols(db, stmt)
    IN [i \in DOMAIN cols |->
          [name |-> cols[i],
           column |-> IF stmt.kind = "SELECT" THEN cols[i] ELSE "null",
           table |-> IF stmt.kind = "SELECT" THEN "users" ELSE "null"]]

\* ------------------------------------------------------------ adapter
\* The third argument of query: absent, or an object whose fields property
\* is unset, true or false.
NoOpts == [present |-> FALSE, fields |-> "unset"]
FieldsFalse == [present |-> TRUE, fields |-> "false"]
FieldsTrue == [present |-> TRUE, fields |-> "true"]
EmptyOpts == [present |-> TRUE, fields |-> "unset"]
AllOpts == {NoOpts, FieldsFalse, FieldsTrue, EmptyOpts}

SQLError(msg, code) == Err("SQLError", code, msg)

mapColumns(column) == [name |-> column.name]

\* What a callback did: returned value, or threw it; and the database after.
Returned(v, d) == [thrown |-> FALSE, value |-> v, db |-> d]
Threw(e, d) == [thrown |-> TRUE, value |-> e, db |-> d]

\* execute as it would be without the remapping of the unique-constraint
\* error.
execute_noRemap(db, stmt) ==
    LET r == Run(db, stmt)
    IN IF r.err = NoErr THEN Returned(r.info, r.db) ELSE Threw(r.err, r.db)

\* The callback execute hands to waitForTick: prepare, run, and remap a
\* unique-constraint error.
execute(db, stmt) ==
    LET r == Run(db, stmt)
    IN IF r.err = NoErr THEN Returned(r.info, r.db)
       ELSE IF r.err.code = "SQLITE_CONSTRAINT_UNIQUE"
       THEN Threw(SQLError(r.err.message, "ER_DUP_ENTRY"), r.db)
       ELSE Threw(r.err, r.db)

\* query as it would be if it ignored opts.
query_alwaysFields(db, stmt, opts) ==
    IF Prepare(db, stmt) # NoErr THEN Threw(Prepare(db, stmt), db)
    ELSE LET cols == Columns(db, stmt)
         IN Returned(Arr(<<Arr(All(db, stmt)),
                           Arr([i \in DOMAIN cols |-> mapColumns(cols[i])])>>), db)

\* The callback query hands to waitForTick: prepare, all, and the column
\* names unless opts.fields is false.
query(db, stmt, opts) ==
    IF Prepare(db, stmt) # NoErr THEN Threw(Prepare(db, stmt), db)
    ELSE LET rows == All(db, stmt)
             cols == Columns(db, stmt)
             fields == IF ~opts.present \/ opts.fields # "false"
                       THEN Arr([i \in DOMAIN cols |-> mapColumns(cols[i])])
                       ELSE Null
         IN Returned(Arr(<<Arr(rows), fields>>), db)

\* A settled promise: resolved with a value, or rejected with an error.
Resolved(v) == [state |-> "resolved", value |-> v]
Rejected(e) == [state |-> "rejected", value |-> e]

\* The deferred callback of waitForTick: resolve(cb()), or reject(err) when
\* cb throws.
settle(r) == IF r.thrown THEN Rejected(r.value) ELSE Resolved(r.value)

NotIterable == Err("TypeError", NoCode, "object is not iterable")
NotAnObject == Err("TypeError", NoCode, "Cannot convert undefined or null to object")

\* const [rows] = value: the first element of an array; anything else is
\* not iterable.
First(v) ==
    IF v.t = "array"
    THEN Resolved(IF v.items = <<>> THEN Undefined ELSE v.items[1])
    ELSE Rejected(NotIterable)

\* rows[0]
Index0(v) ==
    IF v.t = "array" /\ v.items # <<>> THEN v.items[1] ELSE Undefined

\* Object.values(row)[0]: the value of the first key; throws on undefined.
FirstValue(v) ==
    IF v.t = "object"
    THEN Resolved(IF v.props = <<>> THEN Undefined ELSE Num(v.props[1].value))
    ELSE Rejected(NotAnObject)

\* !!value
Truthy(v) ==
    CASE v.t = "number" -> v.v # 0
      [] v.t = "boolean" -> v.v
      [] v.t \in {"undefined", "null"} -> FALSE
      [] OTHER -> TRUE

\* Each method awaits execute or query and shapes what it got; r is the
\* settled promise it awaited.  A rejection passes through.
_dropTable(r) == IF r.state = "rejected" THEN r ELSE Resolved(Undefined)

\* _insert as it would be if it returned info.changes.
_insert_changes(r) ==
    IF r.state = "rejected" THEN r ELSE Resolved(Num(r.value.changes))

_insert(r) ==
    IF r.state = "rejected" THEN r ELSE Resolved(Num(r.value.lastInsertRowid))

\* _select as it would be if it returned what query resolves to.
_select_pair(r) == r

_select(r) == IF r.state = "rejected" THEN r ELSE First(r.value)

\* _selectOne as it would be if it returned the rows, not the first one.
_selectOne_rows(r) == IF r.state = "rejected" THEN r ELSE First(r.value)

_selectOne(r) ==
    IF r.state = "rejected" THEN r
    ELSE IF First(r.value).state = "rejected" THEN First(r.value)
    ELSE Resolved(Index0(First(r.value).value))

\* _count as it would be if it returned the number of result rows.
_count_rows(r) ==
    IF r.state = "rejected" THEN r
    ELSE IF First(r.value).state = "rejected" THEN First(r.value)
    ELSE Resolved(Num(Len(First(r.value).value.items)))

_count(r) ==
    IF r.state = "rejected" THEN r
    ELSE IF First(r.value).state = "rejected" THEN First(r.value)
    ELSE FirstValue(Index0(First(r.value).value))

_exists(r) ==
    IF _count(r).state = "rejected" THEN _count(r)
    ELSE Resolved(Bool(Truthy(_count(r).value)))

\* _update as it would be if it returned info.lastInsertRowid.
_update_lastInsertRowid(r) ==
    IF r.state = "rejected" THEN r ELSE Resolved(Num(r.value.lastInsertRowid))

_update(r) == IF r.state = "rejected" THEN r ELSE Resolved(Num(r.value.changes))

_delete(r) == IF r.state = "rejected" THEN r ELSE Resolved(Num(r.value.changes))

\* Which of execute and query a public method goes through.
Via(method) ==
    IF method \in {"execute", "dropTable", "insert", "update", "delete"}
    THEN "execute" ELSE "query"

\* The opts a method passes to query.
OptsOf(method, opts) ==
    CASE method \in {"selectOne", "exists", "count"} -> FieldsFalse
      [] method = "select" -> NoOpts
      [] OTHER -> opts

\* What the caller's promise settles to, given what execute or query
\* settled to.
Outcome(method, r) ==
    CASE method = "dropTable" -> _dropTable(r)
      [] method = "insert" -> _insert(r)
      [] method = "select" -> _select(r)
      [] method = "selectOne" -> _selectOne(r)
      [] method = "exists" -> _exists(r)
      [] method = "count" -> _count(r)
      [] method = "update" -> _update(r)
      [] method = "delete" -> _delete(r)
      [] OTHER -> r

\* -------------------------------------------------------------- state
VARIABLES
    db,          \* the engine's database and connection
    promises,    \* the promises the client holds, in the order of its calls
    immediates,  \* callbacks queued by setImmediate for the next check phase
    running,     \* the batch of callbacks the current check phase is running
    phase,       \* the event loop's phase: timers (and poll), or check
    timers,      \* other pending work: idle, ready to run, or passed over
    hist         \* what happened to the table since it was created

vars == <<db, promises, immediates, running, phase, timers, hist>>

\* What the table has been through since CREATE TABLE: whether an insert
\* supplied a rowid of its own, and whether rows were updated or deleted.
NoHist == [supplied |-> FALSE, changed |-> FALSE]

HistAfter(h, stmt, r) ==
    IF r.thrown THEN h
    ELSE CASE stmt.kind \in {"CREATE", "DROP"} -> NoHist
           [] stmt.kind = "INSERT" -> [h EXCEPT !.supplied = @ \/ stmt.id # 0]
           [] stmt.kind \in {"UPDATE", "DELETE"} -> [h EXCEPT !.changed = TRUE]
           [] OTHER -> h

Queued == running \o immediates

Settled == \A i \in DOMAIN promises : promises[i].state # "pending"

TimerIds == 1 .. MaxTimers

Init ==
    /\ db = EmptyDb
    /\ promises = <<>>
    /\ immediates = <<>>
    /\ running = <<>>
    /\ phase = "timers"
    /\ timers = [i \in TimerIds |-> "idle"]
    /\ hist = NoHist

\* --------------------------------------------------------- client calls
\* What the client may ask for.
ColumnLists == {<<"*">>, <<"rowid", "username">>}
Limits == {0, 1}

InsertStmts == {InsertInto(i, u, p) : i \in 0 .. MaxId, u \in Usernames, p \in Passwords}
SelectStmts ==
    {SelectFrom(c, w, o, l) : c \in ColumnLists, w \in FindValues, o \in BOOLEAN, l \in Limits}
CreateStmts == {CreateTable(u, k) : u \in BOOLEAN, k \in BOOLEAN}
\* Raw statements: execute is tried with DDL and with a plain INSERT, query
\* with unordered, unlimited SELECTs under every shape of opts.
ExecuteStmts == CreateStmts \cup {InsertInto(0, u, p) : u \in Usernames, p \in Passwords}
QueryStmts == {x \in SelectStmts : x.cols = <<"*">> /\ ~x.order /\ x.limit = 0}

Request(m, s, o) == [method |-> m, stmt |-> s, opts |-> o]

Requests ==
    {Request("execute", s, NoOpts) : s \in ExecuteStmts}
    \cup {Request("query", s, o) : s \in QueryStmts, o \in AllOpts}
    \cup {Request("dropTable", DropTable, NoOpts)}
    \cup {Request("insert", s, NoOpts) : s \in InsertStmts}
    \cup {Request("select", s, NoOpts) : s \in SelectStmts}
    \cup {Request("selectOne", s, NoOpts) : s \in {x \in SelectStmts : x.limit = 1}}
    \cup {Request("exists", SelectExists(w), NoOpts) : w \in FindValues}
    \cup {Request("count", SelectCount(w), NoOpts) : w \in FindValues}
    \cup {Request("update", UpdateSet(u, w), NoOpts) : u \in Usernames, w \in FindValues}
    \cup {Request("delete", DeleteFrom(w), NoOpts) : w \in FindValues}

\* The table stays within MaxRows rows and MaxId rowids whatever the queued
\* inserts do.
QueuedInserts == Len(SelectSeq(Queued, LAMBDA c : c.stmt.kind = "INSERT"))
QueuedIds == {Queued[i].stmt.id : i \in DOMAIN Queued}
HighestId ==
    CHOOSE m \in QueuedIds \cup {db.seq, MaxRowid(db.rows)} :
        \A n \in QueuedIds \cup {db.seq, MaxRowid(db.rows)} : n <= m
Fits(stmt) ==
    stmt.kind = "INSERT" =>
        /\ Len(db.rows) + QueuedInserts < MaxRows
        /\ stmt.id = 0 => HighestId + QueuedInserts < MaxId

\* waitForTick as it would be if the callback went ahead of those queued.
waitForTick_first(q, cb) ==
    [immediates |-> <<cb>> \o q.immediates, running |-> q.running]

\* waitForTick as it would be if the callback joined the batch being run.
waitForTick_sameBatch(q, cb) ==
    [immediates |-> q.immediates, running |-> Append(q.running, cb)]

\* waitForTick(cb): setImmediate puts the callback behind those already
\* queued for the next check phase; the batch being run is not extended.
waitForTick(q, cb) == [immediates |-> Append(q.immediates, cb), running |-> q.running]

\* A call of a public method.  An awaiting client calls only once all its
\* earlier promises have settled, and keeps only the new promise.
Call(req, awaited) ==
    /\ req \in Requests
    /\ Fits(req.stmt)
    /\ awaited => Settled
    /\ LET kept == IF awaited THEN <<>> ELSE promises
           cb == [p |-> Len(kept) + 1, via |-> Via(req.method), stmt |-> req.stmt,
                  opts |-> OptsOf(req.method, req.opts)]
           q == waitForTick([immediates |-> immediates, running |-> running], cb)
       IN /\ promises' = Append(kept, [method |-> req.method, stmt |-> req.stmt,
                                       opts |-> req.opts, awaited |-> Settled,
                                       state |-> "pending", value |-> Undefined])
          /\ immediates' = q.immediates
          /\ running' = q.running
    /\ UNCHANGED <<db, phase, timers, hist>>

NotSupported == Err("Error", NoCode, "Operation is not supported by SQLite")

\* _createDatabase as it would be if it did nothing and returned.
_createDatabase_noop(sql, d) == Returned(Undefined, d)

_createDatabase(sql, d) == Threw(NotSupported, d)

_dropDatabase(sql, d) == Threw(NotSupported, d)

\* _createDatabase and _dropDatabase: async functions that throw at once.
CallDatabase(method, sql) ==
    /\ method \in {"createDatabase", "dropDatabase"}
    /\ Settled
    /\ LET r == IF method = "createDatabase" THEN _createDatabase(sql, db)
                ELSE _dropDatabase(sql, db)
       IN /\ promises' = <<[method |-> method, stmt |-> BaseStmt, opts |-> NoOpts,
                            awaited |-> TRUE, state |-> settle(r).state,
                            value |-> settle(r).value]>>
          /\ db' = r.db
    /\ UNCHANGED <<immediates, running, phase, timers, hist>>

\* end as it would be if closing also dropped the callbacks still queued.
end_cancels ==
    /\ db.open
    /\ db' = [db EXCEPT !.open = FALSE]
    /\ immediates' = <<>>
    /\ running' = <<>>
    /\ UNCHANGED <<promises, phase, timers, hist>>

\* end(): closes the connection in the caller's turn.
end ==
    /\ db.open
    /\ db' = [db EXCEPT !.open = FALSE]
    /\ UNCHANGED <<promises, immediates, running, phase, timers, hist>>

\* --------------------------------------------------------- event loop
\* The callback at the head of the batch, run by the engine.
Ran(cb) ==
    IF cb.via = "execute" THEN execute(db, cb.stmt) ELSE query(db, cb.stmt, cb.opts)

\* Check phase: the next setImmediate callback runs to completion, then the
\* microtasks it released: the promise settles and the awaiting method
\* returns to the client.  Work that was ready is passed over once more.
RunImmediate ==
    /\ phase = "check"
    /\ running # <<>>
    /\ LET cb == Head(running)
           r == Ran(cb)
           out == Outcome(promises[cb.p].method, settle(r))
       IN /\ db' = r.db
          /\ promises' = [promises EXCEPT ![cb.p].state = out.state,
                                          ![cb.p].value = out.value]
          /\ hist' = HistAfter(hist, cb.stmt, r)
    /\ running' = Tail(running)
    /\ timers' = [i \in TimerIds |-> IF timers[i] = "idle" THEN "idle" ELSE "passed"]
    /\ UNCHANGED <<immediates, phase>>

\* A timer expires or an I/O completion arrives: its callback is ready.
TimerExpires(i) ==
    /\ timers[i] = "idle"
    /\ timers' = [timers EXCEPT ![i] = "ready"]
    /\ UNCHANGED <<db, promises, immediates, running, phase, hist>>

\* Timers and poll phases: the callback of every expired timer and of every
\* completed I/O runs; then the check phase starts on the callbacks that
\* setImmediate has queued so far.
RunTimers ==
    /\ phase = "timers"
    /\ phase' = "check"
    /\ timers' = [i \in TimerIds |-> "idle"]
    /\ running' = immediates
    /\ immediates' = <<>>
    /\ UNCHANGED <<db, promises, hist>>

\* The batch is done: the loop starts its next iteration.
CheckDone ==
    /\ phase = "check"
    /\ running = <<>>
    /\ phase' = "timers"
    /\ UNCHANGED <<db, promises, immediates, running, timers, hist>>

Loop == RunTimers \/ RunImmediate \/ CheckDone

\* The client has the thread: at start-up, and in the check phase, where
\* the code behind an await goes on once the promise has settled.
ClientTurn == promises = <<>> \/ phase = "check"

Await(req) == ClientTurn /\ Call(req, TRUE)

AwaitDatabase(method, sql) == ClientTurn /\ CallDatabase(method, sql)

\* A client that awaits every call.
Next ==
    \/ \E req \in Requests : Await(req)
    \/ \E m \in {"createDatabase", "dropDatabase"}, sql \in DatabaseNames :
          AwaitDatabase(m, sql)
    \/ Loop

Spec == Init /\ [][Next]_vars

\* A client that may also call without awaiting, beside other pending work,
\* and that may close the connection.
LoopRequests ==
    {Request("execute", CreateTable(FALSE, FALSE), NoOpts),
     Request("insert", InsertInto(0, "joe", "123"), NoOpts),
     Request("count", SelectCount(NoWhere), NoOpts),
     Request("delete", DeleteFrom(NoWhere), NoOpts)}

NextLoop ==
    \/ \E req \in LoopRequests, awaited \in BOOLEAN :
          (awaited \/ Len(promises) < MaxCalls) /\ Call(req, awaited)
    \/ \E i \in TimerIds : TimerExpires(i)
    \/ end
    \/ Loop

SpecLoop == Init /\ [][NextLoop]_vars

\* A client that never awaits: it issues its calls one after another, at any
\* point of the loop, and holds every promise.  The loop keeps turning as
\* long as the process lives, so a queued callback is run in the end.
IssueRequests ==
    {Request("execute", CreateTable(TRUE, FALSE), NoOpts),
     Request("insert", InsertInto(0, "joe", "123"), NoOpts),
     Request("update", UpdateSet("bob", "joe"), NoOpts),
     Request("delete", DeleteFrom("joe"), NoOpts),
     Request("query", SelectFrom(<<"*">>, NoWhere, FALSE, 0), NoOpts)}

NextIssue ==
    \/ \E req \in IssueRequests : Len(promises) < MaxIssued /\ Call(req, FALSE)
    \/ Loop

SpecIssue == Init /\ [][NextIssue]_vars /\ WF_vars(Loop)

\* The same client, which may also close the connection at any point.
NextClose ==
    \/ \E req \in LoopRequests : Len(promises) < MaxIssued /\ Call(req, FALSE)
    \/ end
    \/ Loop

SpecClose == Init /\ [][NextClose]_vars /\ WF_vars(Loop)

\* ------------------------------------------------------------- claims
\* A step in which the callback at the head of the batch runs.
Runs == phase = "check" /\ running # <<>> /\ running' = Tail(running)
\* That callback, the method that queued it, and its promise afterwards.
Cb == Head(running)
Method == promises[Cb.p].method
After == promises'[Cb.p]

\* The rows of rs that satisfy WHERE username = w (all rows without one).
Hits(rs, w) == {i \in DOMAIN rs : w = NoWhere \/ rs[i].username = w}

Newest == db'.rows[Len(db'.rows)]
\* What select rowid, username would return after the step.
Listed == All(db', SelectFrom(<<"rowid", "username">>, NoWhere, FALSE, 0))

\* C2, as stated: on a table that has seen nothing but inserts since it was
\* created, the k-th successful insert returns k, the rowid under which
\* select then returns the row.
C2_Stated ==
    [][(/\ Runs /\ Method = "insert" /\ After.state = "resolved"
        /\ ~hist.changed) =>
          /\ After.value = Num(Len(db'.rows))
          /\ \E k \in DOMAIN Listed :
                Listed[k] = Obj(<<Prop("rowid", After.value.v),
                                  Prop("username", Cb.stmt.username)>>)]_vars

\* C2, amended: insert returns the rowid of the row it inserted, under which
\* select then returns it; on a table that has seen nothing but inserts
\* since it was created, none of them supplying its own rowid, the k-th
\* successful insert returns k.
C2_InsertReturnsRowid ==
    [][Runs /\ Method = "insert" /\ After.state = "resolved" =>
          /\ Len(db'.rows) = Len(db.rows) + 1
          /\ After.value = Num(Newest.rowid)
          /\ Newest.username = Cb.stmt.username
          /\ \E k \in DOMAIN Listed :
                Listed[k] = Obj(<<Prop("rowid", After.value.v),
                                  Prop("username", Cb.stmt.username)>>)
          /\ ~hist.changed /\ ~hist'.supplied => After.value = Num(Len(db'.rows))]_vars

\* The second insert into a fresh table returned 2.
C2_Witness ==
    /\ promises # <<>>
    /\ promises[1].method = "insert"
    /\ promises[1].state = "resolved"
    /\ promises[1].value = Num(2)
    /\ hist = NoHist
    /\ Len(db.rows) = 2

\* C3: execute and query both resolve to a two-element array.
C3_Stated ==
    \A i \in DOMAIN promises :
        promises[i].method \in {"execute", "query"} /\ promises[i].state = "resolved" =>
            promises[i].value.t = "array" /\ Len(promises[i].value.items) = 2

\* C4: update returns how many rows match its condition, whether or not
\* their values change; delete returns how many rows it removed, leaves no
\* matching row behind, so that the same delete run again returns 0, and
\* without a condition leaves the table empty.
C4_ChangeCounts ==
    [][Runs /\ Method \in {"update", "delete"} /\ After.state = "resolved" =>
          LET n == Cardinality(Hits(db.rows, Cb.stmt.where))
          IN /\ After.value = Num(n)
             /\ Method = "update" =>
                  /\ Len(db'.rows) = Len(db.rows)
                  /\ \A i \in Hits(db.rows, Cb.stmt.where) :
                        db'.rows[i].username = Cb.stmt.username
             /\ Method = "delete" =>
                  /\ Len(db'.rows) = Len(db.rows) - n
                  /\ Hits(db'.rows, Cb.stmt.where) = {}
                  /\ _delete(settle(execute(db', Cb.stmt))) = Resolved(Num(0))
                  /\ Cb.stmt.where = NoWhere => db'.rows = <<>>]_vars

\* An update of two rows to the username they already had returned 2.
C4_Witness ==
    /\ promises # <<>>
    /\ promises[1].method = "update"
    /\ promises[1].state = "resolved"
    /\ promises[1].value = Num(2)
    /\ promises[1].stmt.where = "joe"
    /\ promises[1].stmt.username = "joe"

\* C5: count returns how many rows satisfy the condition, exists whether
\* any does.
C5_CountExists ==
    [][Runs /\ Method \in {"count", "exists"} /\ db.exists =>
          LET n == Cardinality(Hits(db.rows, Cb.stmt.where))
          IN IF Method = "count" THEN After = [promises[Cb.p] EXCEPT
                                                  !.state = "resolved", !.value = Num(n)]
             ELSE After = [promises[Cb.p] EXCEPT
                              !.state = "resolved", !.value = Bool(n > 0)]]_vars

\* A count returned 2 after rows were updated or deleted.
C5_Witness ==
    /\ promises # <<>>
    /\ promises[1].method = "count"
    /\ promises[1].state = "resolved"
    /\ promises[1].value = Num(2)
    /\ hist.changed

\* The rows select returned in a step, and the columns it asked for.
Got == After.value.items
Asked == ResultCols(db, Cb.stmt)
\* r is the plain record of row under the requested columns: those keys, in
\* that order, each with the row's value.
Plain(r, row) ==
    /\ r.t = "object"
    /\ Len(r.props) = Len(Asked)
    /\ \A c \in DOMAIN Asked :
          r.props[c].name = Asked[c] /\ r.props[c].value = Cell(row, Asked[c])
\* How many rows select returns: the matching ones, at most LIMIT of them.
Expected ==
    LET n == Cardinality(Hits(db.rows, Cb.stmt.where))
    IN IF Cb.stmt.limit = 0 THEN n ELSE Min(n, Cb.stmt.limit)
\* Row j comes before row i under ORDER BY username ASC, or in ascending
\* rowid without one.
Precedes(j, i) ==
    \/ Cb.stmt.order /\ NameRank(db.rows[j].username) < NameRank(db.rows[i].username)
    \/ /\ Cb.stmt.order => db.rows[j].username = db.rows[i].username
       /\ db.rows[j].rowid < db.rows[i].rowid

Selected == _select(settle(query(db, [Cb.stmt EXCEPT !.limit = 0], NoOpts)))

\* C7: selectOne returns the first row select would return, undefined when
\* select would return none; never an array, and no rejection for want of
\* rows.
C7_SelectOne ==
    [][Runs /\ Method = "selectOne" /\ db.exists =>
          /\ Selected.state = "resolved"
          /\ After.state = "resolved"
          /\ After.value.t # "array"
          /\ Selected.value.items = <<>> => After.value = Undefined
          /\ Selected.value.items # <<>> => After.value = Selected.value.items[1]]_vars

\* A selectOne found nothing in a table that holds rows; it returned
\* undefined.
C7_Witness ==
    /\ promises # <<>>
    /\ promises[1].method = "selectOne"
    /\ promises[1].state = "resolved"
    /\ promises[1].value = Undefined
    /\ db.rows # <<>>

\* C8: _createDatabase and _dropDatabase reject, whatever the argument and
\* the state, queue nothing for the engine and leave the database as it was.
C8_DatabaseUnsupported ==
    [][/\ \A i \in DOMAIN promises' :
             promises'[i].method \in {"createDatabase", "dropDatabase"} =>
                promises'[i] = [promises'[i] EXCEPT !.state = "rejected",
                                                    !.value = NotSupported]
       /\ (/\ promises' # promises
           /\ promises'[1].method \in {"createDatabase", "dropDatabase"}) =>
             /\ db' = db
             /\ immediates' = immediates
             /\ running' = running]_vars

\* _dropDatabase was rejected on a database that holds a table with rows.
C8_Witness ==
    /\ promises # <<>>
    /\ promises[1].method = "dropDatabase"
    /\ promises[1].state = "rejected"
    /\ db.exists
    /\ db.rows # <<>>

\* What query settles to in the state before the step, under given opts.
Queried(opts) == settle(query(db, Cb.stmt, opts))

\* C10: query returns null for the fields when opts.fields is false and
\* the names of the result columns, in order, otherwise; the rows are the
\* same either way; selectOne, exists and count ask for no fields, select
\* for the fields.
C10_OptionalFields ==
    [][/\ \A i \in DOMAIN immediates' :
             LET m == promises'[immediates'[i].p].method
             IN /\ m \in {"selectOne", "exists", "count"} =>
                      immediates'[i].opts = FieldsFalse
                /\ m = "select" => ~immediates'[i].opts.present
                /\ m = "query" => immediates'[i].opts = promises'[immediates'[i].p].opts
       /\ Runs /\ Cb.via = "query" /\ db.exists =>
             /\ Queried(Cb.opts).state = "resolved"
             /\ Method = "query" => After.value = Queried(Cb.opts).value
             /\ Len(Queried(Cb.opts).value.items) = 2
             /\ IF Cb.opts.present /\ Cb.opts.fields = "false"
                THEN Queried(Cb.opts).value.items[2] = Null
                ELSE Queried(Cb.opts).value.items[2] =
                        Arr([c \in DOMAIN Asked |-> [name |-> Asked[c]]])
             /\ \A o \in AllOpts :
                   Queried(o).value.items[1] = Queried(Cb.opts).value.items[1]]_vars

\* A query with fields: false returned rows and null.
C10_Witness ==
    /\ promises # <<>>
    /\ promises[1].method = "query"
    /\ promises[1].opts = FieldsFalse
    /\ promises[1].state = "resolved"
    /\ promises[1].value.items[1].items # <<>>
    /\ promises[1].value.items[2] = Null

\* C9: a call only queues its callback for a later check phase, and the
\* callback of an awaited call never runs while work is still waiting that
\* was ready before the previous engine call.
C9_YieldsToLoop ==
    [][/\ Len(immediates') > Len(immediates) =>
             db' = db /\ running' = running /\ promises'[Len(promises')].state = "pending"
       /\ Runs /\ promises[Cb.p].awaited =>
             \A i \in TimerIds : timers[i] # "passed"]_vars

\* The callback of an awaited call has run after a timer that an earlier
\* engine call had passed over got its turn, and a timer is ready again.
C9_Witness ==
    /\ Len(promises) = 1
    /\ promises[1].awaited
    /\ promises[1].method = "insert"
    /\ promises[1].state = "resolved"
    /\ promises[1].value = Num(2)
    /\ \E i \in TimerIds : timers[i] = "passed"

\* ---- C11
\* The operation behind promise p, run at once on database d.
Applied(d, p) ==
    IF Via(p.method) = "execute" THEN execute(d, p.stmt)
    ELSE query(d, p.stmt, OptsOf(p.method, p.opts))

\* The database after the first n operations the client issued have run one
\* after another, in issue order, on the database as it was constructed.
RECURSIVE Sequential(_)
Sequential(n) ==
    IF n = 0 THEN EmptyDb ELSE Applied(Sequential(n - 1), promises[n]).db

SettledCount == Cardinality({i \in DOMAIN promises : promises[i].state # "pending"})

\* The settled promises are the first ones issued; each pending one has
\* exactly one callback queued, in issue order; the database and every
\* settled promise are what the sequential run gives.
InIssueOrder ==
    LET n == SettledCount
    IN /\ \A i \in DOMAIN promises : promises[i].state # "pending" <=> i <= n
       /\ Len(Queued) = Len(promises) - n
       /\ \A k \in DOMAIN Queued :
             /\ Queued[k].p = n + k
             /\ Queued[k].stmt = promises[n + k].stmt
             /\ Queued[k].via = Via(promises[n + k].method)
       /\ db = Sequential(n)
       /\ \A i \in 1 .. n :
             [state |-> promises[i].state, value |-> promises[i].value]
                = Outcome(promises[i].method,
                          settle(Applied(Sequential(i - 1), promises[i])))

\* A call queues one callback and touches neither the database nor an
\* earlier promise; any other step that changes the database or a promise
\* is one operation's whole prepare-and-run step, which settles that
\* operation's promise and no other; a settled promise stays as it is.
OneAtATime ==
    /\ \A i \in DOMAIN promises :
          promises[i].state # "pending" => promises'[i] = promises[i]
    /\ Len(promises') # Len(promises) =>
          /\ Len(promises') = Len(promises) + 1
          /\ Len(Queued') = Len(Queued) + 1
          /\ SubSeq(promises', 1, Len(promises)) = promises
          /\ promises'[Len(promises')].state = "pending"
          /\ db' = db
    /\ Len(promises') = Len(promises) /\ <<db, promises>>' # <<db, promises>> =>
          \E i \in DOMAIN promises :
             /\ promises[i].state = "pending"
             /\ promises'[i].state # "pending"
             /\ \A j \in DOMAIN promises \ {i} : promises'[j] = promises[j]
             /\ db' = Applied(db, promises[i]).db
             /\ Len(Queued') = Len(Queued) - 1

\* C11: operations issued without awaiting one another are applied to the
\* engine one at a time in issue order: each call queues exactly one
\* callback, callbacks run first in first out, each prepare-and-run step is
\* one uninterrupted step, every promise settles, once, with the result or
\* the error of its callback, and the database is that of running the same
\* operations sequentially in issue order.
C11_IssueOrder ==
    /\ []InIssueOrder
    /\ [][OneAtATime]_vars
    /\ \A i \in 1 .. MaxIssued :
          (Len(promises) >= i) ~> (Len(promises) >= i /\ promises[i].state # "pending")

\* Two inserts wait in one batch behind a CREATE TABLE that has run.
C11_Witness ==
    /\ Len(promises) = 3
    /\ promises[1].state = "resolved"
    /\ db.exists
    /\ Len(running) = 2
    /\ promises[2].method = "insert"
    /\ promises[3].method = "insert"

\* ---- C12
\* Promise i was rejected by the closed connection.
NotApplied(i) == promises[i].state = "rejected" /\ promises[i].value = NotOpen

\* The operations that settled otherwise.
Effective ==
    Cardinality({i \in DOMAIN promises : promises[i].state # "pending" /\ ~NotApplied(i)})

\* A step that closes the connection changes nothing else: no callback is
\* queued, run or dropped, no promise settles, the loop does not move.
ClosesAtOnce ==
    db.open /\ ~db'.open =>
        /\ db' = [db EXCEPT !.open = FALSE]
        /\ <<promises, immediates, running, phase>>' = <<promises, immediates, running, phase>>

\* Once the connection is closed the database stays as it is, and a
\* callback that runs rejects its promise with the engine's error.
ClosedRejects ==
    ~db.open =>
        /\ db' = db
        /\ Runs => /\ After.state = "rejected"
                   /\ After.value = NotOpen
                   /\ \A j \in DOMAIN promises \ {Cb.p} : promises'[j] = promises[j]

\* The operations that took effect are the first ones issued, all settled
\* while the connection was open; the database holds their sequential run
\* and nothing of the others.
OnlySettledApplied ==
    /\ \A i \in DOMAIN promises :
          promises[i].state # "pending" => (NotApplied(i) <=> i > Effective)
    /\ db.open => \A i \in DOMAIN promises : ~NotApplied(i)
    /\ [db EXCEPT !.open = TRUE] = Sequential(Effective)

\* C12: end() closes the connection at once, in the caller's turn, not
\* through the deferred tick; a callback still queued then runs against the
\* closed connection: its promise rejects and its statement is never
\* applied; the operations that have taken effect are those whose promise
\* had settled before end().
C12_EndClosesAtOnce ==
    /\ [][ClosesAtOnce /\ ClosedRejects]_vars
    /\ []OnlySettledApplied
    /\ \A i \in 1 .. MaxIssued :
          (~db.open /\ Len(promises) >= i /\ promises[i].state = "pending")
             ~> (Len(promises) >= i /\ NotApplied(i))

\* A delete issued while the insert before it was still pending; the insert
\* ran, end() was called, and the delete was rejected: the row is there.
C12_Witness ==
    /\ ~db.open
    /\ Len(promises) = 3
    /\ promises[2].method = "insert"
    /\ promises[2].state = "resolved"
    /\ promises[3].method = "delete"
    /\ ~promises[3].awaited
    /\ NotApplied(3)
    /\ Len(db.rows) = 1

====
